---- MODULE Spec2Model ----
(***************************************************************************)
(* Sales dashboard backend (src/backend/app.py) over the sales_data table  *)
(* written by src/data/preprocessing.py.                                   *)
(*                                                                         *)
(* The table is a multiset of rows; every handler runs SQL aggregations    *)
(* over it and returns a JSON body, or the error envelope with status 500  *)
(* when anything inside its try block raises.                              *)
(*                                                                         *)
(* Numbers: SALES is a REAL column.  Amounts are modelled as integers and  *)
(* every quotient as an exact fraction <<n, d>> in lowest terms, so that   *)
(* a value and its two-decimal rounding are different things.              *)
(***************************************************************************)
EXTENDS Integers, Sequences, FiniteSets, TLC

\* ---------------------------------------------------------------- bounds
MaxRecords == 3
MaxLimit == 3
MaxRepeatRecords == 2
MaxReloadRecords == 1
MaxReloads == 1

\* --------------------------------------------------------- the data set
\* The order lines of the raw data: the lines of one order share its date,
\* customer and country, and each line is of one product line.  Order 10100
\* has two lines.  SALES and STATUS of a line are free.  Values are as
\* preprocess_data leaves them (str.title() on STATUS, COUNTRY, PRODUCTLINE
\* and CUSTOMERNAME, ORDERNUMBER as text); ORDERDATE is written yyyymmdd,
\* which orders like the ISO text SQLite keeps.
OrderLines ==
  << [ORDERNUMBER |-> "10100", ORDERDATE |-> 20031205,
      CUSTOMERNAME |-> "Atelier Graphique", COUNTRY |-> "France",
      PRODUCTLINE |-> "Classic Cars"],
     [ORDERNUMBER |-> "10100", ORDERDATE |-> 20031205,
      CUSTOMERNAME |-> "Atelier Graphique", COUNTRY |-> "France",
      PRODUCTLINE |-> "Motorcycles"],
     [ORDERNUMBER |-> "10200", ORDERDATE |-> 20040110,
      CUSTOMERNAME |-> "Baane Mini Imports", COUNTRY |-> "France",
      PRODUCTLINE |-> "Classic Cars"],
     [ORDERNUMBER |-> "10300", ORDERDATE |-> 20040520,
      CUSTOMERNAME |-> "Atelier Graphique", COUNTRY |-> "Usa",
      PRODUCTLINE |-> "Motorcycles"] >>

SalesValues == <<0, 3, 4>>

Statuses == <<"Shipped", "Cancelled">>

\* The columns preprocess_data keeps when the raw file has them.
BaseColumns ==
  {"ORDERNUMBER", "SALES", "ORDERDATE", "STATUS", "QTR_ID", "MONTH_ID",
   "YEAR_ID", "COUNTRY", "PRODUCTLINE"}

required_columns == BaseColumns \cup {"CUSTOMERNAME"}

\* download_data: date components extracted from ORDERDATE
DtYear(d) == d \div 10000

DtMonth(d) == (d \div 100) % 100

DtQuarter(d) == ((DtMonth(d) - 1) \div 3) + 1

NumRecords == Len(OrderLines) * Len(SalesValues) * Len(Statuses)

\* The k-th row of the universe of rows (mixed-radix decoding of k - 1).
RowOf(k) ==
  LET c  == k - 1
      o  == OrderLines[(c % Len(OrderLines)) + 1]
      c1 == c \div Len(OrderLines)
      v  == SalesValues[(c1 % Len(SalesValues)) + 1]
      c2 == c1 \div Len(SalesValues)
      st == Statuses[(c2 % Len(Statuses)) + 1]
  IN  [ORDERNUMBER |-> o.ORDERNUMBER, SALES |-> v, ORDERDATE |-> o.ORDERDATE,
       STATUS |-> st, QTR_ID |-> DtQuarter(o.ORDERDATE),
       MONTH_ID |-> DtMonth(o.ORDERDATE), YEAR_ID |-> DtYear(o.ORDERDATE),
       COUNTRY |-> o.COUNTRY, PRODUCTLINE |-> o.PRODUCTLINE,
       CUSTOMERNAME |-> o.CUSTOMERNAME]

\* Tables are multisets of rows: one representative per multiset, the row
\* numbers in non-decreasing order.
RECURSIVE NonDecreasing(_)
NonDecreasing(n) ==
  IF n = 0 THEN {<<>>}
  ELSE UNION { { Append(s, k) : k \in (IF s = <<>> THEN 1 ELSE s[Len(s)])..NumRecords }
               : s \in NonDecreasing(n - 1) }

DataFrames == UNION { NonDecreasing(n) : n \in 0..MaxRecords }

\* preprocess_data: df[available_columns]
Project(r, cols) == [c \in cols |-> r[c]]

\* save_to_database: the table holds the frame's rows under its columns
save_to_database(df, cols) == [i \in DOMAIN df |-> Project(RowOf(df[i]), cols)]

VARIABLES
  columns,   \* the columns of table sales_data
  store,     \* the rows of table sales_data
  resp,      \* the response of the request being answered, NoResp when idle
  job,       \* a request in the middle of its queries, NoJob when none is
  seen,      \* a response the client has kept, NoResp when it kept none
  sorter     \* how SQLite's sorter emits rows of equal sort key

vars == <<columns, store, resp, job, seen, sorter>>

NoResp == [op |-> "idle"]

NoJob == [op |-> "none"]

\* ------------------------------------------------------------ arithmetic
RECURSIVE GCD(_, _)
GCD(a, b) == IF b = 0 THEN a ELSE GCD(b, a % b)

\* the fraction n / d in lowest terms, n >= 0, d > 0
Frac(n, d) == IF n = 0 THEN <<0, 1>> ELSE <<n \div GCD(n, d), d \div GCD(n, d)>>

\* round(x, 2) in Python and ROUND(x, 2) in SQLite: the nearest hundredth.
\* On an exact half the result depends on the binary representation of the
\* float, so both neighbours are possible.
Round2(q) ==
  LET h  == q[1] * 100
      fl == h \div q[2]
      r  == h % q[2]
  IN  IF 2 * r < q[2] THEN {Frac(fl, 100)}
      ELSE IF 2 * r > q[2] THEN {Frac(fl + 1, 100)}
      ELSE {Frac(fl, 100), Frac(fl + 1, 100)}

RECURSIVE SumOver(_, _, _)
\* SUM(col) over the rows I of table s
SumOver(s, I, col) ==
  IF I = {} THEN 0
  ELSE LET i == CHOOSE j \in I : TRUE
       IN  s[i][col] + SumOver(s, I \ {i}, col)

\* MAX / MIN of a non-empty set of integers
SetMax(S) == CHOOSE x \in S : \A y \in S : y <= x

SetMin(S) == CHOOSE x \in S : \A y \in S : x <= y

\* ----------------------------------------------------------------- SQL
\* the WHERE clause forgotten: every row takes part
ActiveUnfiltered(s) == DOMAIN s

\* WHERE STATUS != 'Cancelled'
Active(s) == {i \in DOMAIN s : s[i].STATUS # "Cancelled"}

\* the rows of I whose columns keyCols carry the values of row k
GroupOf(s, I, keyCols, k) == {i \in I : \A c \in keyCols : s[i][c] = s[k][c]}

\* GROUP BY keyCols: the groups of the rows I, each a set of row numbers
GroupBy(s, I, keyCols) == {GroupOf(s, I, keyCols, k) : k \in I}

\* a row of the group, to read the grouping columns from
AnyOf(G) == CHOOSE i \in G : TRUE

\* COUNT(DISTINCT col)
CountDistinct(s, G, col) == Cardinality({s[i][col] : i \in G})

\* the average taken per order instead of per row
AvgSalesPerOrder(s, G) ==
  Frac(SumOver(s, G, "SALES"), CountDistinct(s, G, "ORDERNUMBER"))

\* AVG(SALES): the sum over the number of rows of the group
AvgSales(s, G) == Frac(SumOver(s, G, "SALES"), Cardinality(G))

\* the sequences that hold each element of the set S once
Arrangements(S) ==
  {q \in [1..Cardinality(S) -> S] : \A i, j \in DOMAIN q : i # j => q[i] # q[j]}

\* a limit that stops one row early
LimitOneShort(q, n) ==
  IF n < 0 \/ n > Len(q) THEN q ELSE SubSeq(q, 1, n - 1)

\* LIMIT n: a negative n is no limit
Limit(q, n) ==
  IF n < 0 \/ n >= Len(q) THEN q ELSE SubSeq(q, 1, n)

\* ORDER BY total_sales DESC
BySalesDesc(a, b) == a.total_sales > b.total_sales

\* ORDER BY MONTH_ID, YEAR_ID: the sort keys swapped
ByMonthYear(a, b) ==
  \/ a.MONTH_ID < b.MONTH_ID
  \/ a.MONTH_ID = b.MONTH_ID /\ a.YEAR_ID < b.YEAR_ID

\* ORDER BY YEAR_ID, MONTH_ID
ByYearMonth(a, b) ==
  \/ a.YEAR_ID < b.YEAR_ID
  \/ a.YEAR_ID = b.YEAR_ID /\ a.MONTH_ID < b.MONTH_ID

\* ORDER BY YEAR_ID, QTR_ID
ByYearQtr(a, b) ==
  \/ a.YEAR_ID < b.YEAR_ID
  \/ a.YEAR_ID = b.YEAR_ID /\ a.QTR_ID < b.QTR_ID

\* ORDER BY YEAR_ID
ByYear(a, b) == a.YEAR_ID < b.YEAR_ID

\* ORDER BY date
ByDate(a, b) == a.date < b.date

\* row a sorts before row b under the ORDER BY clause ord
Before(ord, a, b) ==
  IF ord = "total_sales DESC" THEN BySalesDesc(a, b)
  ELSE IF ord = "YEAR_ID, MONTH_ID" THEN ByYearMonth(a, b)
  ELSE IF ord = "YEAR_ID, QTR_ID" THEN ByYearQtr(a, b)
  ELSE IF ord = "YEAR_ID" THEN ByYear(a, b)
  ELSE ByDate(a, b)

\* the values rows are grouped by, in ascending order
KeyOrder ==
  <<"Atelier Graphique", "Baane Mini Imports", "Classic Cars", "France",
    "Motorcycles", "Usa">>

KeyRank(k) == CHOOSE n \in DOMAIN KeyOrder : KeyOrder[n] = k

\* the group key of a row of a GROUP BY result
GroupKey(row) ==
  IF "category" \in DOMAIN row THEN row.category
  ELSE IF "customer" \in DOMAIN row THEN row.customer
  ELSE IF "COUNTRY" \in DOMAIN row THEN row.COUNTRY
  ELSE row.PRODUCTLINE

\* The order of rows that compare equal under ORDER BY is not defined by
\* SQLite: 'any' leaves it open at every query.  To a build whose sorter
\* is 'ascending' or 'descending' the GROUP BY rows of equal sort key come
\* out in that order of their group key, at every query of the same table.
Sorters == {"ascending", "descending"}

Emits(a, b) ==
  \/ sorter = "any"
  \/ sorter = "ascending" /\ KeyRank(GroupKey(a)) < KeyRank(GroupKey(b))
  \/ sorter = "descending" /\ KeyRank(GroupKey(a)) > KeyRank(GroupKey(b))

\* ORDER BY ord: the arrangements of the rows S that respect the clause;
\* rows that compare equal come out as the sorter emits them.
OrderBy(S, ord) ==
  {q \in Arrangements(S) :
     \A i, j \in DOMAIN q :
       i < j => /\ ~Before(ord, q[j], q[i])
                /\ ~Before(ord, q[i], q[j]) => Emits(q[i], q[j])}

\* --------------------------------------------------------------- queries
\* sales_over_time, period 'daily'
DailyRows(s) ==
  { [date |-> s[AnyOf(G)].ORDERDATE,
     total_sales |-> SumOver(s, G, "SALES"),
     order_count |-> Cardinality(G)]
    : G \in GroupBy(s, Active(s), {"ORDERDATE"}) }

\* sales_over_time, period 'monthly'
MonthlyRows(s) ==
  { [YEAR_ID |-> s[AnyOf(G)].YEAR_ID, MONTH_ID |-> s[AnyOf(G)].MONTH_ID,
     total_sales |-> SumOver(s, G, "SALES"),
     order_count |-> Cardinality(G)]
    : G \in GroupBy(s, Active(s), {"YEAR_ID", "MONTH_ID"}) }

\* sales_over_time, period 'quarterly'
QuarterlyRows(s) ==
  { [YEAR_ID |-> s[AnyOf(G)].YEAR_ID, QTR_ID |-> s[AnyOf(G)].QTR_ID,
     total_sales |-> SumOver(s, G, "SALES"),
     order_count |-> Cardinality(G)]
    : G \in GroupBy(s, Active(s), {"YEAR_ID", "QTR_ID"}) }

\* sales_over_time, any other period
YearlyRows(s) ==
  { [YEAR_ID |-> s[AnyOf(G)].YEAR_ID,
     total_sales |-> SumOver(s, G, "SALES"),
     order_count |-> Cardinality(G)]
    : G \in GroupBy(s, Active(s), {"YEAR_ID"}) }

\* the results sales_over_time can get from execute_query
OverTimeResults(s, period) ==
  IF period = "daily" THEN OrderBy(DailyRows(s), "date")
  ELSE IF period = "monthly" THEN OrderBy(MonthlyRows(s), "YEAR_ID, MONTH_ID")
  ELSE IF period = "quarterly" THEN OrderBy(QuarterlyRows(s), "YEAR_ID, QTR_ID")
  ELSE OrderBy(YearlyRows(s), "YEAR_ID")

\* sales_by_category (total_quantity is left out: no QUANTITYORDERED here)
CategoryRows(s) ==
  { [category |-> s[AnyOf(G)].PRODUCTLINE,
     total_sales |-> SumOver(s, G, "SALES"),
     order_count |-> Cardinality(G),
     avg_order_value |-> AvgSales(s, G)]
    : G \in GroupBy(s, Active(s), {"PRODUCTLINE"}) }

\* sales_by_country with order_count counting orders instead of rows
CountryRowsCountingOrders(s) ==
  { [COUNTRY |-> s[AnyOf(G)].COUNTRY,
     total_sales |-> SumOver(s, G, "SALES"),
     order_count |-> CountDistinct(s, G, "ORDERNUMBER"),
     avg_order_value |-> AvgSales(s, G),
     unique_orders |-> CountDistinct(s, G, "ORDERNUMBER")]
    : G \in GroupBy(s, Active(s), {"COUNTRY"}) }

\* sales_by_country
CountryRows(s) ==
  { [COUNTRY |-> s[AnyOf(G)].COUNTRY,
     total_sales |-> SumOver(s, G, "SALES"),
     order_count |-> Cardinality(G),
     avg_order_value |-> AvgSales(s, G),
     unique_orders |-> CountDistinct(s, G, "ORDERNUMBER")]
    : G \in GroupBy(s, Active(s), {"COUNTRY"}) }

\* top_customers grouping by COUNTRY whatever the schema
CustomerColumnCountryOnly(cols) == "COUNTRY"

\* top_customers: the column the rows are grouped by
CustomerColumn(cols) == IF "CUSTOMERNAME" \in cols THEN "CUSTOMERNAME" ELSE "COUNTRY"

\* top_customers, before ORDER BY and LIMIT
CustomerRows(s, cols) ==
  { [customer |-> s[AnyOf(G)][CustomerColumn(cols)],
     total_sales |-> SumOver(s, G, "SALES"),
     total_orders |-> CountDistinct(s, G, "ORDERNUMBER"),
     avg_order_value |-> AvgSales(s, G),
     last_order_date |-> SetMax({s[i].ORDERDATE : i \in G})]
    : G \in GroupBy(s, Active(s), {CustomerColumn(cols)}) }

\* the results top_customers can get from execute_query
TopCustomersResults(s, cols, limit) ==
  { Limit(q, limit) : q \in OrderBy(CustomerRows(s, cols), "total_sales DESC") }

\* monthly_trends (total_quantity is left out)
MonthlyTrendRows(s) ==
  { [YEAR_ID |-> s[AnyOf(G)].YEAR_ID, MONTH_ID |-> s[AnyOf(G)].MONTH_ID,
     total_sales |-> SumOver(s, G, "SALES"),
     order_count |-> CountDistinct(s, G, "ORDERNUMBER"),
     avg_order_value |-> AvgSales(s, G)]
    : G \in GroupBy(s, Active(s), {"YEAR_ID", "MONTH_ID"}) }

\* quarterly_analysis
QuarterlyAnalysisRows(s) ==
  { [YEAR_ID |-> s[AnyOf(G)].YEAR_ID, QTR_ID |-> s[AnyOf(G)].QTR_ID,
     total_sales |-> SumOver(s, G, "SALES"),
     order_count |-> CountDistinct(s, G, "ORDERNUMBER"),
     avg_order_value |-> AvgSales(s, G),
     countries_served |-> CountDistinct(s, G, "COUNTRY")]
    : G \in GroupBy(s, Active(s), {"YEAR_ID", "QTR_ID"}) }

\* product_performance (total_quantity and avg_price are left out)
ProductRows(s) ==
  { [PRODUCTLINE |-> s[AnyOf(G)].PRODUCTLINE,
     total_sales |-> SumOver(s, G, "SALES"),
     order_count |-> CountDistinct(s, G, "ORDERNUMBER"),
     countries |-> CountDistinct(s, G, "COUNTRY")]
    : G \in GroupBy(s, Active(s), {"PRODUCTLINE"}) }

\* ------------------------------------------------------------ kpi queries
\* A value SQL may return as NULL is the empty set or a singleton.
Null == {}

Some(v) == {v}

TheValue(n) == CHOOSE v \in n : TRUE

\* SELECT SUM(SALES) ... WHERE STATUS != 'Cancelled': NULL over no rows
TotalSalesQuery(s) ==
  IF Active(s) = {} THEN Null ELSE Some(SumOver(s, Active(s), "SALES"))

\* SELECT COUNT(DISTINCT ORDERNUMBER) ... WHERE STATUS != 'Cancelled'
TotalOrdersQuery(s) == CountDistinct(s, Active(s), "ORDERNUMBER")

\* the countries counted over the active rows only
TotalCustomersActive(s) == CountDistinct(s, Active(s), "COUNTRY")

\* SELECT COUNT(DISTINCT COUNTRY) FROM sales_data
TotalCustomersQuery(s) == CountDistinct(s, DOMAIN s, "COUNTRY")

\* the monthly_sales common table expression
MonthlyTotals(s) ==
  { SumOver(s, G, "SALES") : G \in GroupBy(s, Active(s), {"YEAR_ID", "MONTH_ID"}) }

\* the spread taken over the largest month instead of the smallest
GrowthRateOverMax(s) ==
  LET M == MonthlyTotals(s)
  IN  IF M = {} THEN Null
      ELSE IF SetMax(M) = 0 THEN Null
      ELSE Some(Frac((SetMax(M) - SetMin(M)) * 100, SetMax(M)))

\* (MAX(monthly_total) - MIN(monthly_total)) / MIN(monthly_total) * 100:
\* NULL over no rows, and NULL when the divisor is 0
GrowthRateQuery(s) ==
  LET M == MonthlyTotals(s)
  IN  IF M = {} THEN Null
      ELSE IF SetMin(M) = 0 THEN Null
      ELSE Some(Frac((SetMax(M) - SetMin(M)) * 100, SetMin(M)))

\* SELECT STATUS, COUNT(*), ROUND(COUNT(*) * 100.0 / (SELECT COUNT(*) ...), 2)
\* ... GROUP BY STATUS: the row sets the query can produce
StatusRowSets(s) ==
  LET Groups == GroupBy(s, DOMAIN s, {"STATUS"})
      Pct(G) == Round2(Frac(Cardinality(G) * 100, Len(s)))
      Choices == {p \in [Groups -> UNION {Pct(G) : G \in Groups}] :
                    \A G \in Groups : p[G] \in Pct(G)}
  IN  { { [STATUS |-> s[AnyOf(G)].STATUS, count |-> Cardinality(G),
           percentage |-> p[G]] : G \in Groups }
        : p \in Choices }

\* the results of the status query: no ORDER BY, any order of the rows
StatusResults(s) == UNION { Arrangements(R) : R \in StatusRowSets(s) }

\* -------------------------------------------------------------- requests
\* request.args.get('period', 'monthly'): a request without the parameter
\* is the request with 'monthly'; 'weekly' stands for any other value
Periods == {"daily", "monthly", "quarterly", "yearly", "weekly"}

\* request.args.get('limit', 10, type=int): a request without the
\* parameter, or with one that is no integer, is the request with 10
DefaultLimit == 10

LimitValues == (-1..MaxLimit) \cup {DefaultLimit}

Idle == resp = NoResp

\* the state after the preprocessing pipeline has run: main() saves the
\* processed frame, with or without the optional CUSTOMERNAME column
Init ==
  /\ columns \in {BaseColumns, required_columns}
  /\ store \in {save_to_database(df, columns) : df \in DataFrames}
  /\ resp = NoResp
  /\ job = NoJob
  /\ seen = NoResp
  /\ sorter = "any"

home ==
  /\ Idle
  /\ resp' = [op |-> "home", status |-> 200]
  /\ UNCHANGED <<columns, store, job, seen, sorter>>

sales_over_time ==
  /\ Idle
  /\ \E period \in Periods : \E q \in OverTimeResults(store, period) :
       resp' = [op |-> "sales-over-time", status |-> 200,
                data |-> q, period |-> period]
  /\ UNCHANGED <<columns, store, job, seen, sorter>>

\* sales_by_category leaving the table without the rows it has read
sales_by_category_consuming ==
  /\ Idle
  /\ \E q \in OrderBy(CategoryRows(store), "total_sales DESC") :
       resp' = [op |-> "sales-by-category", status |-> 200, data |-> q]
  /\ store' = SelectSeq(store, LAMBDA r : r.STATUS = "Cancelled")
  /\ UNCHANGED <<columns, job, seen, sorter>>

sales_by_category ==
  /\ Idle
  /\ \E q \in OrderBy(CategoryRows(store), "total_sales DESC") :
       resp' = [op |-> "sales-by-category", status |-> 200, data |-> q]
  /\ UNCHANGED <<columns, store, job, seen, sorter>>

sales_by_country ==
  /\ Idle
  /\ \E q \in OrderBy(CountryRows(store), "total_sales DESC") :
       resp' = [op |-> "sales-by-country", status |-> 200, data |-> q]
  /\ UNCHANGED <<columns, store, job, seen, sorter>>

\* get_kpis, from the values its five queries returned; round(None, 2)
\* raises TypeError, which the handler turns into the error response
KpisResponses(total_sales, total_orders, total_customers, growth, statuses) ==
  IF total_sales = Null
  THEN { [op |-> "kpis", status |-> 500, error |-> "TypeError"] }
  ELSE LET avg_order_value ==
             IF total_orders > 0 THEN Frac(TheValue(total_sales), total_orders)
             ELSE <<0, 1>>
           growth_rate == IF growth = Null THEN <<0, 1>> ELSE TheValue(growth)
       IN  { [op |-> "kpis", status |-> 200,
              data |-> [total_sales |-> ts,
                        total_orders |-> total_orders,
                        avg_order_value |-> av,
                        total_customers |-> total_customers,
                        growth_rate |-> gr,
                        status_distribution |-> sd]]
             : ts \in Round2(<<TheValue(total_sales), 1>>),
               av \in Round2(avg_order_value),
               gr \in Round2(growth_rate),
               sd \in statuses }

get_kpis ==
  /\ Idle
  /\ resp' \in KpisResponses(TotalSalesQuery(store), TotalOrdersQuery(store),
                             TotalCustomersQuery(store), GrowthRateQuery(store),
                             StatusResults(store))
  /\ UNCHANGED <<columns, store, job, seen, sorter>>

top_customers ==
  /\ Idle
  /\ \E limit \in LimitValues : \E q \in TopCustomersResults(store, columns, limit) :
       resp' = [op |-> "top-customers", status |-> 200, data |-> q,
                limit_requested |-> limit, results_count |-> Len(q)]
  /\ UNCHANGED <<columns, store, job, seen, sorter>>

monthly_trends ==
  /\ Idle
  /\ \E q \in OrderBy(MonthlyTrendRows(store), "YEAR_ID, MONTH_ID") :
       resp' = [op |-> "monthly-trends", status |-> 200, data |-> q]
  /\ UNCHANGED <<columns, store, job, seen, sorter>>

quarterly_analysis ==
  /\ Idle
  /\ \E q \in OrderBy(QuarterlyAnalysisRows(store), "YEAR_ID, QTR_ID") :
       resp' = [op |-> "quarterly-analysis", status |-> 200, data |-> q]
  /\ UNCHANGED <<columns, store, job, seen, sorter>>

product_performance ==
  /\ Idle
  /\ \E q \in OrderBy(ProductRows(store), "total_sales DESC") :
       resp' = [op |-> "product-performance", status |-> 200, data |-> q]
  /\ UNCHANGED <<columns, store, job, seen, sorter>>

\* the response leaves the server; the next request can be answered
Respond ==
  /\ ~Idle
  /\ resp' = NoResp
  /\ UNCHANGED <<columns, store, job, seen, sorter>>

Next ==
  \/ home
  \/ sales_over_time
  \/ sales_by_category
  \/ sales_by_country
  \/ get_kpis
  \/ top_customers
  \/ monthly_trends
  \/ quarterly_analysis
  \/ product_performance
  \/ Respond

Spec == Init /\ [][Next]_vars

\* =============================================================== properties
\* the records that are not cancelled, read from the table itself
NonCancelled == {i \in DOMAIN store : store[i].STATUS # "Cancelled"}

IsNotCancelled(r) == r.STATUS # "Cancelled"

\* the table with its cancelled records deleted
WithoutCancelled == SelectSeq(store, IsNotCancelled)

RECURSIVE SeqSum(_, _, _)
\* the sum of field f over the first n rows of q
SeqSum(q, f, n) == IF n = 0 THEN 0 ELSE q[n][f] + SeqSum(q, f, n - 1)

Answered(ops) == resp.op \in ops /\ resp.status = 200

\* the responses get_kpis can give over table s
KpisOn(s) ==
  KpisResponses(TotalSalesQuery(s), TotalOrdersQuery(s), TotalCustomersQuery(s),
                GrowthRateQuery(s), StatusResults(s))

\* p, a fraction, is q rounded to two decimals: a whole number of
\* hundredths at most half a hundredth away from q
IsRounded2(p, q) ==
  /\ 100 % p[2] = 0
  /\ LET diff == p[1] * q[2] - q[1] * p[2]
     IN  200 * (IF diff < 0 THEN -diff ELSE diff) <= p[2] * q[2]

\* every sequence-returning handler gives what it would give over the table
\* without its cancelled records
SequencesIgnoreCancelled ==
  /\ resp.op = "sales-over-time"
       => resp.data \in OverTimeResults(WithoutCancelled, resp.period)
  /\ resp.op = "sales-by-category"
       => resp.data \in OrderBy(CategoryRows(WithoutCancelled), "total_sales DESC")
  /\ resp.op = "sales-by-country"
       => resp.data \in OrderBy(CountryRows(WithoutCancelled), "total_sales DESC")
  /\ resp.op = "top-customers"
       => resp.data \in TopCustomersResults(WithoutCancelled, columns,
                                            resp.limit_requested)
  /\ resp.op = "monthly-trends"
       => resp.data \in OrderBy(MonthlyTrendRows(WithoutCancelled), "YEAR_ID, MONTH_ID")
  /\ resp.op = "quarterly-analysis"
       => resp.data \in OrderBy(QuarterlyAnalysisRows(WithoutCancelled), "YEAR_ID, QTR_ID")

\* the kpis answer agrees on the given fields with an answer kpis can give
\* over the table without its cancelled records
KpisIgnoreCancelled(fields) ==
  Answered({"kpis"}) =>
    \E k \in KpisOn(WithoutCancelled) :
      /\ k.status = 200
      /\ \A f \in fields : k.data[f] = resp.data[f]

\* C1 as stated: a cancelled record contributes to no row of the sequence
\* results and to no kpis figure other than status_distribution, which is
\* the only aggregation that counts cancelled records.
C1_OnlyStatusDistributionCountsCancelled ==
  /\ SequencesIgnoreCancelled
  /\ KpisIgnoreCancelled({"total_sales", "total_orders", "avg_order_value",
                          "total_customers", "growth_rate"})

\* C1 amended: a cancelled record contributes to no row of the sequence
\* results and not to kpis total_sales, total_orders, avg_order_value or
\* growth_rate; status_distribution and total_customers are the kpis
\* figures that count cancelled records.
C1_CancelledExcluded ==
  /\ SequencesIgnoreCancelled
  /\ KpisIgnoreCancelled({"total_sales", "total_orders", "avg_order_value",
                          "growth_rate"})

\* kpis answered over a table with a cancelled record whose country no
\* active record has: the sales figures ignore it, total_customers counts it
C1_Witness ==
  /\ Answered({"kpis"})
  /\ NonCancelled # DOMAIN store
  /\ resp.data.total_customers # TotalCustomersQuery(WithoutCancelled)
  /\ resp.data.total_sales = <<SumOver(store, NonCancelled, "SALES"), 1>>
  /\ SumOver(store, DOMAIN store, "SALES") > SumOver(store, NonCancelled, "SALES")

\* the record rec belongs to the group that row stands for in the answer
InGroupOfRow(rec, row) ==
  IF resp.op = "sales-by-category" THEN row.category = rec.PRODUCTLINE
  ELSE IF resp.op = "sales-by-country" THEN row.COUNTRY = rec.COUNTRY
  ELSE IF resp.period = "daily" THEN row.date = rec.ORDERDATE
  ELSE IF resp.period = "monthly"
       THEN row.YEAR_ID = rec.YEAR_ID /\ row.MONTH_ID = rec.MONTH_ID
  ELSE IF resp.period = "quarterly"
       THEN row.YEAR_ID = rec.YEAR_ID /\ row.QTR_ID = rec.QTR_ID
  ELSE row.YEAR_ID = rec.YEAR_ID

\* C2: when the table has an active record, the rows of sales-by-category,
\* sales-by-country and sales-over-time (any period) have total_sales
\* summing to the SALES of the active records and order_count summing to
\* their number, and every active record is in exactly one returned group.
C2_LosslessPartition ==
  (Answered({"sales-by-category", "sales-by-country", "sales-over-time"})
     /\ NonCancelled # {})
  => /\ SeqSum(resp.data, "total_sales", Len(resp.data))
          = SumOver(store, NonCancelled, "SALES")
     /\ SeqSum(resp.data, "order_count", Len(resp.data))
          = Cardinality(NonCancelled)
     /\ \A i \in NonCancelled :
          Cardinality({j \in DOMAIN resp.data :
                         InGroupOfRow(store[i], resp.data[j])}) = 1

\* sales-by-country answered with a row for each of two countries, over
\* two active records with sales and a cancelled record with sales
C2_Witness ==
  /\ Answered({"sales-by-country"})
  /\ Len(resp.data) = 2
  /\ Cardinality(NonCancelled) = 2
  /\ Len(store) = 3
  /\ \A i \in DOMAIN store : store[i].SALES > 0

\* C3: every row of sales-by-category and sales-by-country has
\* order_count = the number of active records of its group, > 0, and
\* avg_order_value = total_sales / order_count.
C3_AvgPerLine ==
  Answered({"sales-by-category", "sales-by-country"})
  => \A j \in DOMAIN resp.data :
       /\ resp.data[j].order_count
            = Cardinality({i \in NonCancelled : InGroupOfRow(store[i], resp.data[j])})
       /\ resp.data[j].order_count > 0
       /\ resp.data[j].avg_order_value[1] * resp.data[j].order_count
            = resp.data[j].total_sales * resp.data[j].avg_order_value[2]

\* sales-by-category answered with a row of two lines of one order whose
\* average is not a whole number
C3_Witness ==
  /\ Answered({"sales-by-category"})
  /\ \E j \in DOMAIN resp.data :
       /\ resp.data[j].order_count = 2
       /\ resp.data[j].avg_order_value[2] = 2
       /\ \E a, b \in NonCancelled :
            /\ a # b
            /\ store[a].ORDERNUMBER = store[b].ORDERNUMBER
            /\ store[a].PRODUCTLINE = resp.data[j].category
            /\ store[b].PRODUCTLINE = resp.data[j].category

\* the distinct-order count a row reports
ReportedOrders(row) ==
  IF resp.op = "top-customers" THEN row.total_orders ELSE row.order_count

\* C4: every row of top-customers, monthly-trends and quarterly-analysis
\* has avg_order_value = total_sales / the distinct ORDERNUMBER count it
\* reports, also when an order has several lines in the group.
C4_AvgPerReportedOrder ==
  Answered({"top-customers", "monthly-trends", "quarterly-analysis"})
  => \A j \in DOMAIN resp.data :
       /\ ReportedOrders(resp.data[j]) > 0
       /\ resp.data[j].avg_order_value[1] * ReportedOrders(resp.data[j])
            = resp.data[j].total_sales * resp.data[j].avg_order_value[2]

\* top-customers answered with a customer whose one order has two lines
C4_Case ==
  /\ Answered({"top-customers"})
  /\ \E j \in DOMAIN resp.data :
       resp.data[j].total_orders = 1 /\ resp.data[j].avg_order_value[2] = 2

\* C5 as stated: with an active record, kpis gives total_sales = the SALES
\* of the active records, total_orders = their distinct ORDERNUMBER count,
\* avg_order_value = total_sales / total_orders, and total_customers = the
\* distinct COUNTRY count over all records.
C5_KpiTotalsExact ==
  (resp.op = "kpis" /\ NonCancelled # {})
  => /\ resp.status = 200
     /\ resp.data.total_sales = <<SumOver(store, NonCancelled, "SALES"), 1>>
     /\ resp.data.total_orders
          = Cardinality({store[i].ORDERNUMBER : i \in NonCancelled})
     /\ resp.data.avg_order_value[1] * resp.data.total_orders
          = SumOver(store, NonCancelled, "SALES") * resp.data.avg_order_value[2]
     /\ resp.data.total_customers
          = Cardinality({store[i].COUNTRY : i \in DOMAIN store})

\* C5 amended: as stated, but total_sales is the sum and avg_order_value is
\* total_sales / total_orders each rounded to two decimal places.
C5_KpiTotals ==
  (resp.op = "kpis" /\ NonCancelled # {})
  => /\ resp.status = 200
     /\ IsRounded2(resp.data.total_sales, <<SumOver(store, NonCancelled, "SALES"), 1>>)
     /\ resp.data.total_orders
          = Cardinality({store[i].ORDERNUMBER : i \in NonCancelled})
     /\ IsRounded2(resp.data.avg_order_value,
                   <<SumOver(store, NonCancelled, "SALES"), resp.data.total_orders>>)
     /\ resp.data.total_customers
          = Cardinality({store[i].COUNTRY : i \in DOMAIN store})

\* kpis answered where a country is on a cancelled record only, and where
\* the average per order has more than two decimals
C5_Witness ==
  /\ Answered({"kpis"})
  /\ \E i \in DOMAIN store :
       /\ store[i].STATUS = "Cancelled"
       /\ store[i].SALES > 0
       /\ \A j \in NonCancelled : store[j].COUNTRY # store[i].COUNTRY
  /\ resp.data.total_customers = 2
  /\ resp.data.total_orders = 2
  /\ resp.data.avg_order_value[2] = 2

\* kpis answered over three orders whose sales do not divide by three
C5_RoundedCase ==
  /\ Answered({"kpis"})
  /\ resp.data.total_orders = 3
  /\ resp.data.avg_order_value[2] = 100

\* C6: over a table with no records, or with cancelled records only, kpis
\* answers with total_sales, total_orders, avg_order_value and growth_rate
\* all 0 and no error, and every sequence-returning handler answers with an
\* empty sequence and no error.
C6_EmptyIsNotAnError ==
  (NonCancelled = {} /\ resp.op \notin {"idle", "home"})
  => /\ resp.status = 200
     /\ IF resp.op = "kpis"
        THEN /\ resp.data.total_sales = <<0, 1>>
             /\ resp.data.total_orders = 0
             /\ resp.data.avg_order_value = <<0, 1>>
             /\ resp.data.growth_rate = <<0, 1>>
        ELSE resp.data = <<>>

\* the part of C6 the handlers meet: the sequence-returning ones
C6_SequencesEmpty ==
  (NonCancelled = {} /\ resp.op \notin {"idle", "home", "kpis"})
  => resp.status = 200 /\ resp.data = <<>>

\* the (YEAR_ID, MONTH_ID) pairs of the active records and their sales
ActiveMonths == {<<store[i].YEAR_ID, store[i].MONTH_ID>> : i \in NonCancelled}

SalesOfMonth(k) ==
  SumOver(store, {i \in NonCancelled : <<store[i].YEAR_ID, store[i].MONTH_ID>> = k},
          "SALES")

LargestMonth == SetMax({SalesOfMonth(k) : k \in ActiveMonths})

SmallestMonth == SetMin({SalesOfMonth(k) : k \in ActiveMonths})

\* C7 as stated: with an active record, kpis answers without error and
\* growth_rate = (max - min) / min * 100 over the monthly sales of the
\* active records, and 0 when the smallest monthly total is 0.
C7_GrowthRateExact ==
  (resp.op = "kpis" /\ NonCancelled # {})
  => /\ resp.status = 200
     /\ IF SmallestMonth = 0
        THEN resp.data.growth_rate = <<0, 1>>
        ELSE resp.data.growth_rate[1] * SmallestMonth
               = (LargestMonth - SmallestMonth) * 100 * resp.data.growth_rate[2]

\* C7 amended: as stated, but growth_rate is (max - min) / min * 100
\* rounded to two decimal places.
C7_GrowthRate ==
  (resp.op = "kpis" /\ NonCancelled # {})
  => /\ resp.status = 200
     /\ IF SmallestMonth = 0
        THEN resp.data.growth_rate = <<0, 1>>
        ELSE IsRounded2(resp.data.growth_rate,
                        <<(LargestMonth - SmallestMonth) * 100, SmallestMonth>>)

\* kpis answered where a month of active records sold nothing and another
\* month sold something
C7_Witness ==
  /\ Answered({"kpis"})
  /\ SmallestMonth = 0
  /\ LargestMonth > 0
  /\ resp.data.growth_rate = <<0, 1>>

\* kpis answered where the spread over the smallest month has more than two
\* decimals
C7_RoundedCase ==
  /\ Answered({"kpis"})
  /\ SmallestMonth = 3
  /\ LargestMonth = 4
  /\ resp.data.growth_rate = <<3333, 100>>

\* the status distribution of an answer: one row per STATUS of the table,
\* counts that sum to the number of records, each percentage the rounding
\* of count * 100 / number of records
StatusDistributionRight(sd) ==
  /\ {sd[j].STATUS : j \in DOMAIN sd} = {store[i].STATUS : i \in DOMAIN store}
  /\ Len(sd) = Cardinality({store[i].STATUS : i \in DOMAIN store})
  /\ SeqSum(sd, "count", Len(sd)) = Len(store)
  /\ \A j \in DOMAIN sd :
       /\ sd[j].count
            = Cardinality({i \in DOMAIN store : store[i].STATUS = sd[j].STATUS})
       /\ IsRounded2(sd[j].percentage, <<sd[j].count * 100, Len(store)>>)

\* C8: over every non-empty table, kpis status_distribution has one row per
\* distinct STATUS of all records, counts summing to the number of records,
\* and each percentage = round(count * 100 / number of records, 2).
C8_StatusDistribution ==
  (resp.op = "kpis" /\ Len(store) > 0)
  => resp.status = 200 /\ StatusDistributionRight(resp.data.status_distribution)

\* what holds of the code: the same whenever kpis answers without error
C8_WhenAnswered ==
  Answered({"kpis"}) => StatusDistributionRight(resp.data.status_distribution)

\* the group key of a row of the answer
RowKey(row) ==
  IF resp.op = "sales-by-category" THEN row.category
  ELSE IF resp.op = "sales-by-country" THEN row.COUNTRY
  ELSE row.customer

\* C9: the rows of sales-by-category, sales-by-country and top-customers
\* are in descending order of total_sales, and rows of equal total_sales
\* in ascending order of their group key.
C9_TiesAscendingKey ==
  Answered({"sales-by-category", "sales-by-country", "top-customers"})
  => \A i, j \in DOMAIN resp.data :
       i < j => \/ resp.data[i].total_sales > resp.data[j].total_sales
                \/ /\ resp.data[i].total_sales = resp.data[j].total_sales
                   /\ KeyRank(RowKey(resp.data[i])) < KeyRank(RowKey(resp.data[j]))

\* what holds of the code: descending total_sales, ties in any order
C9_DescendingSales ==
  Answered({"sales-by-category", "sales-by-country", "top-customers"})
  => \A i, j \in DOMAIN resp.data :
       i < j => resp.data[i].total_sales >= resp.data[j].total_sales

\* the customer groups of the active records and their sales
CustomerOf(i) ==
  IF "CUSTOMERNAME" \in columns THEN store[i].CUSTOMERNAME ELSE store[i].COUNTRY

ActiveCustomers == {CustomerOf(i) : i \in NonCancelled}

SalesOfCustomer(c) ==
  SumOver(store, {i \in NonCancelled : CustomerOf(i) = c}, "SALES")

\* C10: for a limit >= 1, top-customers answers without error with
\* min(limit, number of customer groups) rows, one per group and with that
\* group's sales, no group left out has more sales than a returned one, and
\* results_count is the number of rows.
C10_TopN ==
  (resp.op = "top-customers" /\ resp.limit_requested >= 1)
  => /\ resp.status = 200
     /\ Len(resp.data) = IF resp.limit_requested < Cardinality(ActiveCustomers)
                         THEN resp.limit_requested
                         ELSE Cardinality(ActiveCustomers)
     /\ resp.results_count = Len(resp.data)
     /\ \A i, j \in DOMAIN resp.data :
          i # j => resp.data[i].customer # resp.data[j].customer
     /\ \A j \in DOMAIN resp.data :
          /\ resp.data[j].customer \in ActiveCustomers
          /\ resp.data[j].total_sales = SalesOfCustomer(resp.data[j].customer)
     /\ \A c \in ActiveCustomers :
          (\A j \in DOMAIN resp.data : resp.data[j].customer # c)
          => \A j \in DOMAIN resp.data :
               resp.data[j].total_sales >= SalesOfCustomer(c)

\* top-customers answered with limit 1 over two customers of different
\* sales: one row, the larger customer
C10_Witness ==
  /\ Answered({"top-customers"})
  /\ resp.limit_requested = 1
  /\ Cardinality(ActiveCustomers) = 2
  /\ \E c, d \in ActiveCustomers : SalesOfCustomer(c) > SalesOfCustomer(d)
  /\ resp.results_count = 1

\* top-customers answered with a limit above the number of groups
C10_AllGroupsCase ==
  /\ Answered({"top-customers"})
  /\ resp.limit_requested = DefaultLimit
  /\ Cardinality(ActiveCustomers) = 2
  /\ resp.results_count = 2

\* ------------------------------------------------- limits and granularity
\* C11: for every limit <= 0, zero and every negative value, top-customers
\* answers without error, with no rows and results_count = 0.
C11_NonPositiveLimitEmpty ==
  (resp.op = "top-customers" /\ resp.limit_requested <= 0)
  => /\ resp.status = 200
     /\ resp.data = <<>>
     /\ resp.results_count = 0

\* what holds of the code: limit 0 gives no rows; a negative limit is no
\* limit to SQLite and gives a row for every customer group
C11_ZeroEmptyNegativeAll ==
  resp.op = "top-customers"
  => /\ resp.status = 200
     /\ resp.limit_requested = 0 => resp.data = <<>> /\ resp.results_count = 0
     /\ resp.limit_requested < 0
        => /\ Len(resp.data) = Cardinality(ActiveCustomers)
           /\ resp.results_count = Cardinality(ActiveCustomers)

\* top-customers answered with limit 0 on a table with active records
C11_ZeroCase ==
  /\ Answered({"top-customers"})
  /\ resp.limit_requested = 0
  /\ NonCancelled # {}

\* top-customers answered with a negative limit on a table with two groups
C11_NegativeCase ==
  /\ Answered({"top-customers"})
  /\ resp.limit_requested < 0
  /\ Cardinality(ActiveCustomers) = 2
  /\ resp.results_count = 2

\* the granularities sales_over_time has a branch of its own for
KnownPeriods == {"daily", "monthly", "quarterly"}

\* C12: sales-over-time asked with a granularity it does not recognise
\* answers with the month-granularity result: one row per (year, month) of
\* the active records, keyed by YEAR_ID and MONTH_ID, with that month's
\* sales; when no granularity is supplied the result is the month result too.
C12_UnknownPeriodIsMonthly ==
  (/\ resp.op = "sales-over-time"
   /\ resp.period \notin {"daily", "quarterly", "yearly"})
  => /\ resp.status = 200
     /\ Len(resp.data) = Cardinality(ActiveMonths)
     /\ \A j \in DOMAIN resp.data :
          /\ {"YEAR_ID", "MONTH_ID"} \subseteq DOMAIN resp.data[j]
          /\ <<resp.data[j].YEAR_ID, resp.data[j].MONTH_ID>> \in ActiveMonths
          /\ resp.data[j].total_sales
               = SalesOfMonth(<<resp.data[j].YEAR_ID, resp.data[j].MONTH_ID>>)

\* what holds of the code: the result is the month result when the
\* granularity is 'monthly' or left out, and the year result, one row per
\* year, for every value other than 'daily', 'monthly' and 'quarterly'
C12_UnknownPeriodIsYearly ==
  resp.op = "sales-over-time"
  => /\ resp.status = 200
     /\ resp.period = "monthly"
        => /\ Len(resp.data) = Cardinality(ActiveMonths)
           /\ \A j \in DOMAIN resp.data :
                <<resp.data[j].YEAR_ID, resp.data[j].MONTH_ID>> \in ActiveMonths
     /\ resp.period \notin KnownPeriods
        => /\ Len(resp.data) = Cardinality({k[1] : k \in ActiveMonths})
           /\ \A j \in DOMAIN resp.data :
                /\ DOMAIN resp.data[j] = {"YEAR_ID", "total_sales", "order_count"}
                /\ resp.data[j].YEAR_ID \in {k[1] : k \in ActiveMonths}

\* sales-over-time answered for an unknown granularity on a table with
\* active records in two months of one year
C12_UnknownCase ==
  /\ Answered({"sales-over-time"})
  /\ resp.period = "weekly"
  /\ Cardinality(ActiveMonths) = 2
  /\ Cardinality({k[1] : k \in ActiveMonths}) = 1

\* ------------------------------------------------ time buckets and order
\* the bucket key a result row carries
RowBucket(row) ==
  IF "date" \in DOMAIN row THEN <<row.date, 0>>
  ELSE IF "MONTH_ID" \in DOMAIN row THEN <<row.YEAR_ID, row.MONTH_ID>>
  ELSE IF "QTR_ID" \in DOMAIN row THEN <<row.YEAR_ID, row.QTR_ID>>
  ELSE <<row.YEAR_ID, 0>>

\* the bucket of the same kind that the record r of the table is in
RecordBucket(r, row) ==
  IF "date" \in DOMAIN row THEN <<r.ORDERDATE, 0>>
  ELSE IF "MONTH_ID" \in DOMAIN row THEN <<r.YEAR_ID, r.MONTH_ID>>
  ELSE IF "QTR_ID" \in DOMAIN row THEN <<r.YEAR_ID, r.QTR_ID>>
  ELSE <<r.YEAR_ID, 0>>

\* bucket k is earlier than bucket m
Earlier(k, m) == k[1] < m[1] \/ (k[1] = m[1] /\ k[2] < m[2])

TimeOps == {"sales-over-time", "monthly-trends", "quarterly-analysis"}

\* C14: the rows of sales-over-time (for every period value), monthly-trends
\* and quarterly-analysis come in strictly ascending chronological order of
\* their bucket key, every bucket that holds an active record has a row
\* (exactly one, the order being strict), and every row is the bucket of
\* some active record.
C14_ChronologicalBuckets ==
  resp.op \in TimeOps
  => /\ resp.status = 200
     /\ \A i, j \in DOMAIN resp.data :
          i < j => Earlier(RowBucket(resp.data[i]), RowBucket(resp.data[j]))
     /\ \A i \in NonCancelled : \E j \in DOMAIN resp.data :
          RowBucket(resp.data[j]) = RecordBucket(store[i], resp.data[j])
     /\ \A j \in DOMAIN resp.data : \E i \in NonCancelled :
          RowBucket(resp.data[j]) = RecordBucket(store[i], resp.data[j])

\* a month result over active records of December 2003 and January 2004 and
\* a cancelled record of May 2004: two rows, December first, no row for May
C14_Witness ==
  /\ Answered({"sales-over-time", "monthly-trends"})
  /\ Len(resp.data) = 2
  /\ "MONTH_ID" \in DOMAIN resp.data[1]
  /\ <<resp.data[1].YEAR_ID, resp.data[1].MONTH_ID>> = <<2003, 12>>
  /\ <<resp.data[2].YEAR_ID, resp.data[2].MONTH_ID>> = <<2004, 1>>
  /\ \E i \in DOMAIN store :
       store[i].STATUS = "Cancelled" /\ store[i].ORDERDATE = 20040520

\* ----------------------------------------------------- customer grouping
CustomerFields ==
  {"customer", "total_sales", "total_orders", "avg_order_value", "last_order_date"}

\* the active records whose column col holds v
ActiveWith(col, v) == {i \in NonCancelled : store[i][col] = v}

\* C15: top-customers groups the active records by CUSTOMERNAME whenever
\* the table has that column and by COUNTRY only when it has not; in both
\* cases a row carries the group's value under 'customer' and has the
\* fields customer, total_sales, total_orders, avg_order_value and
\* last_order_date.
C15_GroupColumn ==
  resp.op = "top-customers"
  => /\ resp.status = 200
     /\ \A j \in DOMAIN resp.data :
          LET col == IF "CUSTOMERNAME" \in columns THEN "CUSTOMERNAME"
                     ELSE "COUNTRY"
              row == resp.data[j]
          IN  /\ DOMAIN row = CustomerFields
              /\ ActiveWith(col, row.customer) # {}
              /\ row.total_sales = SumOver(store, ActiveWith(col, row.customer), "SALES")
              /\ row.total_orders
                   = Cardinality({store[i].ORDERNUMBER : i \in ActiveWith(col, row.customer)})
              /\ \A k \in DOMAIN resp.data : k # j => resp.data[k].customer # row.customer

\* the table has no CUSTOMERNAME column and holds active lines of two
\* orders from France: top-customers answers with the one row of France
C15_Witness ==
  /\ Answered({"top-customers"})
  /\ "CUSTOMERNAME" \notin columns
  /\ {store[i].ORDERNUMBER : i \in NonCancelled} = {"10100", "10200"}
  /\ Len(resp.data) = 1
  /\ resp.data[1].customer = "France"
  /\ resp.data[1].total_orders = 2

\* the table has the CUSTOMERNAME column and holds active lines of one
\* customer in two countries: one row, under the customer's name
C15_NameCase ==
  /\ Answered({"top-customers"})
  /\ "CUSTOMERNAME" \in columns
  /\ {store[i].COUNTRY : i \in NonCancelled} = {"France", "Usa"}
  /\ Len(resp.data) = 1
  /\ resp.data[1].customer = "Atelier Graphique"

\* ------------------------------------------ a raw file with period columns
\* download_data extracts YEAR_ID, MONTH_ID and QTR_ID from ORDERDATE only
\* for those of the three columns that the raw file does not carry itself.
PeriodColumns == {"YEAR_ID", "MONTH_ID", "QTR_ID"}

\* What a raw file that carries period columns has in them for the order
\* lines of OrderLines, line by line.  The second line of order 10100, of
\* 5 December 2003, is entered under January 2004; the other lines are
\* entered under the period of their date.
CsvPeriods ==
  << [YEAR_ID |-> 2003, MONTH_ID |-> 12, QTR_ID |-> 4],
     [YEAR_ID |-> 2004, MONTH_ID |-> 1, QTR_ID |-> 1],
     [YEAR_ID |-> 2004, MONTH_ID |-> 1, QTR_ID |-> 1],
     [YEAR_ID |-> 2004, MONTH_ID |-> 5, QTR_ID |-> 2] >>

\* pd.read_csv: the k-th row of the universe as a raw file with the period
\* columns csv_columns has it
RawRowOf(k, csv_columns) ==
  LET r    == RowOf(k)
      line == ((k - 1) % Len(OrderLines)) + 1
  IN  [c \in (DOMAIN r \ PeriodColumns) \cup csv_columns |->
         IF c \in PeriodColumns THEN CsvPeriods[line][c] ELSE r[c]]

\* download_data: a period column is added only when the file lacks it
download_data(raw) ==
  [c \in DOMAIN raw \cup PeriodColumns |->
     IF c \in DOMAIN raw THEN raw[c]
     ELSE IF c = "YEAR_ID" THEN DtYear(raw.ORDERDATE)
     ELSE IF c = "MONTH_ID" THEN DtMonth(raw.ORDERDATE)
     ELSE DtQuarter(raw.ORDERDATE)]

\* main: download_data, preprocess_data and save_to_database on a raw file
\* of the rows df with the period columns csv_columns
main(df, csv_columns, cols) ==
  [i \in DOMAIN df |-> Project(download_data(RawRowOf(df[i], csv_columns)), cols)]

\* The table is loaded from a raw file that may carry period columns.
InitCsv ==
  /\ columns \in {BaseColumns, required_columns}
  /\ store \in {main(df, csv_columns, columns) :
                  df \in DataFrames, csv_columns \in SUBSET PeriodColumns}
  /\ resp = NoResp
  /\ job = NoJob
  /\ seen = NoResp
  /\ sorter = "any"

SpecCsv == InitCsv /\ [][Next]_vars

\* the bucket of the kind of row that the order date d falls in: year,
\* month and quarter = ((month - 1) div 3) + 1 of the date
DateBucket(d, row) ==
  IF "date" \in DOMAIN row THEN <<d, 0>>
  ELSE IF "MONTH_ID" \in DOMAIN row THEN <<d \div 10000, (d \div 100) % 100>>
  ELSE IF "QTR_ID" \in DOMAIN row
    THEN <<d \div 10000, ((((d \div 100) % 100) - 1) \div 3) + 1>>
  ELSE <<d \div 10000, 0>>

\* the active records whose order date falls in the bucket of row
ActiveOfBucket(row) ==
  {i \in NonCancelled : DateBucket(store[i].ORDERDATE, row) = RowBucket(row)}

\* C13: in sales-over-time, monthly-trends and quarterly-analysis the bucket
\* of a loaded record is a function of its ORDERDATE alone, also when the
\* raw file carries YEAR_ID, MONTH_ID or QTR_ID columns: every active record
\* is counted in the row of the bucket of its order date, so a row's sales
\* are the sales of the active records whose order date falls in its bucket.
C13_BucketFromOrderDate ==
  resp.op \in TimeOps
  => /\ resp.status = 200
     /\ \A i \in NonCancelled : \E j \in DOMAIN resp.data :
          RowBucket(resp.data[j]) = DateBucket(store[i].ORDERDATE, resp.data[j])
     /\ \A j \in DOMAIN resp.data :
          resp.data[j].total_sales
            = SumOver(store, ActiveOfBucket(resp.data[j]), "SALES")

\* two active lines of order 10100, both of 5 December 2003, the raw file
\* carrying a MONTH_ID column: month buckets are asked for
C13_SameDateCase ==
  /\ Answered({"monthly-trends"})
  /\ Len(store) = 2
  /\ \A i \in DOMAIN store :
       store[i].ORDERDATE = 20031205 /\ store[i].STATUS = "Shipped"
  /\ \E i \in DOMAIN store : store[i].MONTH_ID # 12
  /\ Len(resp.data) = 2

\* ---------------------------------------------------- repeated requests
\* the client keeps the response it has got, to hold a later one against
Remember ==
  /\ ~Idle
  /\ seen' = resp
  /\ resp' = NoResp
  /\ UNCHANGED <<columns, store, job, sorter>>

\* the frames of at most MaxRepeatRecords rows, all of them with sales
RepeatFrames ==
  {f \in DataFrames :
     Len(f) <= MaxRepeatRecords /\ \A i \in DOMAIN f : RowOf(f[i]).SALES > 0}

\* a small table, and a build of SQLite with one sorter or the other
InitRepeat ==
  /\ columns \in {BaseColumns, required_columns}
  /\ store \in {save_to_database(df, columns) : df \in RepeatFrames}
  /\ resp = NoResp
  /\ job = NoJob
  /\ seen = NoResp
  /\ sorter \in Sorters

NextRepeat == Next \/ Remember

\* any sequence of API calls, the client keeping some of the responses
SpecRepeat == InitRepeat /\ [][NextRepeat]_vars

\* responses a and b answer the same operation with the same parameters
SameRequest(a, b) ==
  /\ a.op = b.op
  /\ a.op \notin {"idle", "home"}
  /\ a.op = "sales-over-time" /\ a.status = 200 /\ b.status = 200
     => a.period = b.period
  /\ a.op = "top-customers" /\ a.status = 200 /\ b.status = 200
     => a.limit_requested = b.limit_requested

\* the rows of a successful response, as a set
RowSet(r) ==
  IF r.op = "kpis"
  THEN { [r.data EXCEPT !.status_distribution =
            {r.data.status_distribution[i] : i \in DOMAIN r.data.status_distribution}] }
  ELSE { r.data[i] : i \in DOMAIN r.data }

\* responses a and b say the same: the same error, or the same set of rows
SameAnswer(a, b) ==
  /\ a.status = b.status
  /\ a.status = 200 => RowSet(a) = RowSet(b)
  /\ a.status # 200 => a.error = b.error

\* C16: no API call, whatever its parameters and whether it succeeds or
\* answers with an error, changes the records or the schema of the table,
\* and so an operation asked again with the same parameters, after any
\* other calls, returns the same set of rows as before.
C16_ReadOnly ==
  [][ /\ store' = store
      /\ columns' = columns
      /\ SameRequest(seen', resp') => SameAnswer(seen', resp') ]_vars

\* top-customers is answered a second time with limit 1 on a table whose
\* two customers have equal sales, the client having kept the first answer
C16_Witness ==
  /\ Answered({"top-customers"})
  /\ seen.op = "top-customers"
  /\ seen.limit_requested = 1
  /\ resp.limit_requested = 1
  /\ Cardinality(ActiveCustomers) = 2
  /\ \A c, d \in ActiveCustomers : SalesOfCustomer(c) = SalesOfCustomer(d)
  /\ Len(resp.data) = 1

\* kpis is answered with an error a second time
C16_ErrorCase ==
  /\ resp.op = "kpis" /\ resp.status = 500
  /\ seen.op = "kpis" /\ seen.status = 500

\* top-customers is answered again after the client kept its response to
\* another limit
C16_OtherParameterCase ==
  /\ Answered({"top-customers"})
  /\ seen.op = "top-customers"
  /\ seen.limit_requested # resp.limit_requested
  /\ Len(seen.data) # Len(resp.data)

\* -------------------------- the table replaced while a request is answered
\* The tables the pipeline can write: save_to_database of a small frame.
ReloadTables ==
  { <<cols, save_to_database(df, cols)>> :
      cols \in {BaseColumns, required_columns},
      df \in {f \in DataFrames : Len(f) <= MaxReloadRecords} }

InitReload ==
  /\ \E t \in ReloadTables : columns = t[1] /\ store = t[2]
  /\ resp = NoResp
  /\ job = NoJob
  /\ seen = NoResp
  /\ sorter = "any"

\* the job of a request that has returned; tables is kept for the record
Done(j) == [op |-> j.op, pc |-> "done", tables |-> j.tables]

\* save_to_database while the server is up: to_sql(if_exists='replace')
\* puts the new table in the place of the old one, here in one step.  A
\* request in the middle of its queries takes note of the tables it has
\* run over (tables is history, the handler does not read it); it sees at
\* most MaxReloads replacements.
replace_table ==
  /\ Idle
  /\ job.op # "none" => Cardinality(job.tables) <= MaxReloads
  /\ \E t \in ReloadTables :
       /\ t # <<columns, store>>
       /\ columns' = t[1]
       /\ store' = t[2]
       /\ job' = IF job.op = "none" THEN job
                 ELSE [job EXCEPT !.tables = @ \cup {t}]
  /\ UNCHANGED <<resp, seen, sorter>>

\* get_kpis, query by query: each execute_query opens a connection of its
\* own and reads the table as it is at that moment
kpis_total_sales ==
  /\ Idle
  /\ job = NoJob
  /\ job' = [op |-> "kpis", pc |-> "total_orders",
             tables |-> {<<columns, store>>},
             total_sales |-> TotalSalesQuery(store)]
  /\ UNCHANGED <<columns, store, resp, seen, sorter>>

\* total_sales / total_orders raises TypeError when total_sales is None
kpis_total_orders ==
  /\ job.op = "kpis"
  /\ job.pc = "total_orders"
  /\ LET total_orders == TotalOrdersQuery(store)
     IN  IF job.total_sales = Null /\ total_orders > 0
         THEN /\ resp' = [op |-> "kpis", status |-> 500, error |-> "TypeError"]
              /\ job' = Done(job)
         ELSE /\ job' = [op |-> "kpis", pc |-> "total_customers",
                         tables |-> job.tables,
                         total_sales |-> job.total_sales,
                         total_orders |-> total_orders]
              /\ resp' = resp
  /\ UNCHANGED <<columns, store, seen, sorter>>

kpis_total_customers ==
  /\ job.op = "kpis"
  /\ job.pc = "total_customers"
  /\ job' = [op |-> "kpis", pc |-> "growth_rate", tables |-> job.tables,
             total_sales |-> job.total_sales,
             total_orders |-> job.total_orders,
             total_customers |-> TotalCustomersQuery(store)]
  /\ UNCHANGED <<columns, store, resp, seen, sorter>>

kpis_growth_rate ==
  /\ job.op = "kpis"
  /\ job.pc = "growth_rate"
  /\ job' = [op |-> "kpis", pc |-> "status_distribution", tables |-> job.tables,
             total_sales |-> job.total_sales,
             total_orders |-> job.total_orders,
             total_customers |-> job.total_customers,
             growth_rate |-> GrowthRateQuery(store)]
  /\ UNCHANGED <<columns, store, resp, seen, sorter>>

\* the last query, and the response built from the five results
kpis_status_distribution ==
  /\ job.op = "kpis"
  /\ job.pc = "status_distribution"
  /\ resp' \in KpisResponses(job.total_sales, job.total_orders,
                             job.total_customers, job.growth_rate,
                             StatusResults(store))
  /\ job' = Done(job)
  /\ UNCHANGED <<columns, store, seen, sorter>>

\* top_customers: PRAGMA table_info on a connection of its own
top_customers_pragma ==
  /\ Idle
  /\ job = NoJob
  /\ \E limit \in LimitValues :
       job' = [op |-> "top-customers", pc |-> "query",
               tables |-> {<<columns, store>>},
               limit |-> limit, columns |-> columns]
  /\ UNCHANGED <<columns, store, resp, seen, sorter>>

\* top_customers: the query picked from the columns read before; SQLite
\* raises 'no such column' when the table no longer has the column
top_customers_query ==
  /\ job.op = "top-customers"
  /\ job.pc = "query"
  /\ IF CustomerColumn(job.columns) \in columns
     THEN \E q \in TopCustomersResults(store, job.columns, job.limit) :
            resp' = [op |-> "top-customers", status |-> 200, data |-> q,
                     limit_requested |-> job.limit, results_count |-> Len(q)]
     ELSE resp' = [op |-> "top-customers", status |-> 500,
                   error |-> "no such column"]
  /\ job' = Done(job)
  /\ UNCHANGED <<columns, store, seen, sorter>>

\* the response leaves the server and the request is over
Return ==
  /\ ~Idle
  /\ resp' = NoResp
  /\ job' = NoJob
  /\ UNCHANGED <<columns, store, seen, sorter>>

NextReload ==
  \/ replace_table
  \/ kpis_total_sales
  \/ kpis_total_orders
  \/ kpis_total_customers
  \/ kpis_growth_rate
  \/ kpis_status_distribution
  \/ top_customers_pragma
  \/ top_customers_query
  \/ Return

\* the server answering kpis and top-customers while the pipeline runs
SpecReload == InitReload /\ [][NextReload]_vars

\* the response is what top_customers gives over the table t
TopCustomersOn(t) ==
  /\ resp.status = 200
  /\ resp.data \in TopCustomersResults(t[2], t[1], resp.limit_requested)

\* C17: when save_to_database replaces the table while a kpis call is in
\* progress, the KPI bundle is computed from a single snapshot, all of its
\* fields from the old table or all from the new one; and a top-customers
\* call whose schema check and query straddle a replacement does not fail
\* and answers as it would over one of the two tables, grouped by that
\* table's column.
C17_SingleSnapshot ==
  /\ resp.op = "kpis" => \E t \in job.tables : resp \in KpisOn(t[2])
  /\ resp.op = "top-customers" => \E t \in job.tables : TopCustomersOn(t)

\* a kpis response after a replacement that no single table gives
C17_MixtureCase ==
  /\ Answered({"kpis"})
  /\ Cardinality(job.tables) = 2
  /\ \A t \in job.tables : resp \notin KpisOn(t[2])

\* a top-customers call fails: the table lost CUSTOMERNAME after the check
C17_FailureCase ==
  /\ resp.op = "top-customers"
  /\ resp.status = 500
  /\ Cardinality(job.tables) = 2

\* what holds of the code: a call that saw no replacement answers from the
\* one table it ran over
C17_UndisturbedSnapshot ==
  (resp.op \in {"kpis", "top-customers"} /\ Cardinality(job.tables) = 1)
  => /\ resp.op = "kpis" => resp \in KpisOn(store)
     /\ resp.op = "top-customers" => TopCustomersOn(<<columns, store>>)

====
